---------------------------- MODULE Spec2Model ----------------------------
(***************************************************************************)
(* ResizeObserverController (src/unnamed/part_000, lines 58-307) and the   *)
(* throttle wrapper it is built on (lines 309-379).                        *)
(*                                                                         *)
(* Time is kept relative: every outstanding setTimeout timer holds the     *)
(* milliseconds left until it may fire, and Tick lets TickMs milliseconds  *)
(* pass.  A timer whose time is up may fire at once or any time later, a   *)
(* requested animation frame may fire at any later moment.  Calls, events  *)
(* and tasks that happen between two Ticks happen at one clock reading.    *)
(*                                                                         *)
(* User code runs between tasks and inside broadcastActive, where it may   *)
(* call connect, disconnect, the continuousUpdates setter and refresh.     *)
(* Session operations (gatherActive, hasActive, broadcastActive) return in *)
(* every specification but SpecThrow, where they may throw.                *)
(***************************************************************************)
EXTENDS Integers, Sequences, FiniteSets, TLC

\* ------------------------------------------------------------- bounds ---
\* number of distinct observers (sessions) the environment may connect
NumSessions == 2
\* milliseconds that pass in one Tick step
TickMs == 35
\* convergence runs: most passes in which the sessions report changes
MaxK == 2
\* stand-alone throttle: proxy calls issued in one run
MaxCalls == 4
\* stand-alone throttle: largest delay, in Tick steps
MaxDelaySteps == 2

\* ---------------------------------------------------- program constants ---
\* throttle(this.refresh.bind(this), 30, true)
FastDelay == 30
\* throttle(this.refresh, 70)
SlowDelay == 70

Sessions == 1..NumSessions

VARIABLES
    isBrowser,           \* utils/isBrowser, fixed when the module is loaded
    mutationsSupported,  \* typeof MutationObserver === 'function'
    isCycleContinuous,   \* this._isCycleContinuous
    listenersEnabled,    \* this._listenersEnabled
    mutationsObserver,   \* this._mutationsObserver: "undefined", "null", "observer"
    observers,           \* this._observers, in connection order
    resizeListener,      \* window: is this.refresh registered for "resize"
    fast,                \* closure state of this.refresh
    slow,                \* closure state of this._continuousUpdateHandler
    pc,                  \* "idle", "pass" (inside _updateObservers), "broadcast"
    idx,                 \* array iterator position of the for-of loop
    hasChanges,          \* local of _updateObservers
    last,                \* history: the operation or task that ran last
    envCalls,            \* history: the environment calls that step made
    passes,              \* history: refresh passes counted by the convergence and drain runs
    convK,               \* convergence runs: passes in which sessions report changes
    processed,           \* history: the sessions the current pass has processed, in order
    atStart,             \* history: the sessions connected when the current pass began
    thr,                 \* closure state of a stand-alone throttle wrapper
    thrDelay,            \* its delay
    thrRAF,              \* its afterRAF
    thrPc,               \* "idle", or "callback" while its callback runs
    nCalls,              \* history: calls of its proxy so far
    nFires,              \* history: invocations of its callback so far
    lastFired,           \* history: callData of the latest invocation
    sinceFire,           \* history: ms since the latest invocation began (capped)
    sinceCall,           \* history: ms since the latest proxy call (capped)
    elapsed,             \* history: ms since the first proxy call (capped)
    span,                \* history: ms from the first to the latest proxy call
    gapOK,               \* history: consecutive calls were less than thrDelay apart
    nSuperseded          \* history: calls overwritten while waiting in edgeCall

ctrlVars == <<isBrowser, mutationsSupported, isCycleContinuous, listenersEnabled,
              mutationsObserver, observers, resizeListener, fast, slow,
              pc, idx, hasChanges>>

convVars == <<passes, convK, processed, atStart>>

thrVars == <<thr, thrDelay, thrRAF, thrPc, nCalls, nFires, lastFired,
             sinceFire, sinceCall, elapsed, span, gapOK, nSuperseded>>

vars == <<ctrlVars, last, envCalls, convVars, thrVars>>

\* ------------------------------------------------------------ throttle ---
\* leadCall / edgeCall hold null or callData = [this, args]
Null == <<>>

CallData(this, args) == <<this, args>>

\* let leadCall = null, edgeCall = null; no timer, no frame requested
NewThrottle == [leadCall |-> Null, edgeCall |-> Null, timers |-> <<>>, frames |-> 0]

\* mutant: the timer is set without the delay
ProxyNoDelay(c, callData, delay) ==
    IF c.leadCall # Null
    THEN [c EXCEPT !.edgeCall = callData]
    ELSE [c EXCEPT !.leadCall = callData, !.timers = Append(@, 0)]

\* mutant: a timer is set for every call
ProxyAlwaysSchedule(c, callData, delay) ==
    IF c.leadCall # Null
    THEN [c EXCEPT !.edgeCall = callData, !.timers = Append(@, delay)]
    ELSE [c EXCEPT !.leadCall = callData, !.timers = Append(@, delay)]

\* proxy(...args) of a wrapper with the given delay
Proxy(c, callData, delay) ==
    IF c.leadCall # Null
    THEN [c EXCEPT !.edgeCall = callData]
    ELSE [c EXCEPT !.leadCall = callData, !.timers = Append(@, delay)]

\* mutant: the edge call is cleared without being re-issued
InvokeTailDropEdge(c, delay) == [c EXCEPT !.leadCall = Null, !.edgeCall = Null]

\* mutant: the edge call is re-issued with no fresh delay window
InvokeTailNoDelay(c, delay) ==
    LET c1 == [c EXCEPT !.leadCall = Null]
    IN  IF c1.edgeCall # Null
        THEN [c1 EXCEPT !.leadCall = c1.edgeCall, !.timers = Append(@, 0), !.edgeCall = Null]
        ELSE c1

\* mutant: the edge call is re-issued but not cleared
InvokeTailKeepEdge(c, delay) ==
    LET c1 == [c EXCEPT !.leadCall = Null]
    IN  IF c1.edgeCall # Null THEN Proxy(c1, c1.edgeCall, delay) ELSE c1

\* invokeCallback after callback.apply(...leadCall) has returned
InvokeTail(c, delay) ==
    LET c1 == [c EXCEPT !.leadCall = Null]
    IN  IF c1.edgeCall # Null
        THEN [Proxy(c1, c1.edgeCall, delay) EXCEPT !.edgeCall = Null]
        ELSE c1

\* the timers of a wrapper after TickMs milliseconds
RECURSIVE Elapse(_)
Elapse(ts) ==
    IF ts = <<>> THEN <<>>
    ELSE <<IF Head(ts) > TickMs THEN Head(ts) - TickMs ELSE 0>> \o Elapse(Tail(ts))

\* the wrapper holds no call, no timer and no requested frame
Idle(c) == c.leadCall = Null /\ c.edgeCall = Null /\ c.timers = <<>> /\ c.frames = 0

\* a timer that is due: timers of one delay fire in the order they were set
TimerDue(c) == c.timers # <<>> /\ Head(c.timers) = 0

\* timeoutCallback: the due timer is consumed; with afterRAF the invocation
\* is handed to requestAnimationFrame
TimeoutCallback(c, afterRAF) ==
    [c EXCEPT !.timers = Tail(@), !.frames = IF afterRAF THEN @ + 1 ELSE @]

\* ---------------------------------------------------------- controller ---
\* callData of the calls the controller and the environment make
ControllerCall == CallData("controller", <<>>)
ResizeCall == CallData("window", <<"event">>)
MutationCall == CallData("observer", <<"records", "observer">>)

\* this.refresh(...) : the proxy of the fast wrapper
Refresh(c, callData) == Proxy(c, callData, FastDelay)

\* this._continuousUpdateHandler() : the proxy of the slow wrapper
ContinuousUpdateHandler(c) == Proxy(c, ControllerCall, SlowDelay)

IsConnected(observer) == \E i \in 1..Len(observers) : observers[i] = observer

IndexOf(observer) ==
    IF IsConnected(observer)
    THEN CHOOSE i \in 1..Len(observers) :
            /\ observers[i] = observer
            /\ \A j \in 1..(i - 1) : observers[j] # observer
    ELSE 0

\* observers.splice(index, 1)
Splice(seq, index) == SubSeq(seq, 1, index - 1) \o SubSeq(seq, index + 1, Len(seq))

\* user code runs between tasks and inside a session's broadcastActive
UserCode == pc \in {"idle", "broadcast"}

\* mutant: the listeners are added without the isBrowser test
AddListenersAnywhere ==
    IF listenersEnabled
    THEN /\ envCalls' = <<>>
         /\ UNCHANGED <<resizeListener, mutationsObserver, listenersEnabled, fast>>
    ELSE /\ resizeListener' = TRUE
         /\ mutationsObserver' = IF mutationsSupported THEN "observer" ELSE mutationsObserver
         /\ envCalls' = <<"addEventListener">> \o
                IF mutationsSupported THEN <<"new MutationObserver", "observe">> ELSE <<>>
         /\ listenersEnabled' = TRUE
         /\ fast' = IF isCycleContinuous THEN Refresh(fast, ControllerCall) ELSE fast

\* mutant: the update is initiated whatever _isCycleContinuous is
AddListenersAlwaysRefresh ==
    IF ~isBrowser \/ listenersEnabled
    THEN /\ envCalls' = <<>>
         /\ UNCHANGED <<resizeListener, mutationsObserver, listenersEnabled, fast>>
    ELSE /\ resizeListener' = TRUE
         /\ mutationsObserver' = IF mutationsSupported THEN "observer" ELSE mutationsObserver
         /\ envCalls' = <<"addEventListener">> \o
                IF mutationsSupported THEN <<"new MutationObserver", "observe">> ELSE <<>>
         /\ listenersEnabled' = TRUE
         /\ fast' = Refresh(fast, ControllerCall)

\* _addListeners, called with the observers already updated
AddListeners ==
    IF ~isBrowser \/ listenersEnabled
    THEN /\ envCalls' = <<>>
         /\ UNCHANGED <<resizeListener, mutationsObserver, listenersEnabled, fast>>
    ELSE /\ resizeListener' = TRUE
         /\ mutationsObserver' = IF mutationsSupported THEN "observer" ELSE mutationsObserver
         /\ envCalls' = <<"addEventListener">> \o
                IF mutationsSupported THEN <<"new MutationObserver", "observe">> ELSE <<>>
         /\ listenersEnabled' = TRUE
         /\ fast' = IF isCycleContinuous THEN Refresh(fast, ControllerCall) ELSE fast

\* mutant: the resize listener is left registered
RemoveListenersKeepResize ==
    IF ~isBrowser \/ ~listenersEnabled
    THEN /\ envCalls' = <<>>
         /\ UNCHANGED <<resizeListener, mutationsObserver, listenersEnabled>>
    ELSE /\ resizeListener' = resizeListener
         /\ mutationsObserver' = "null"
         /\ envCalls' = IF mutationsObserver = "observer" THEN <<"disconnect">> ELSE <<>>
         /\ listenersEnabled' = FALSE

\* _removeListeners
RemoveListeners ==
    IF ~isBrowser \/ ~listenersEnabled
    THEN /\ envCalls' = <<>>
         /\ UNCHANGED <<resizeListener, mutationsObserver, listenersEnabled>>
    ELSE /\ resizeListener' = FALSE
         /\ mutationsObserver' = "null"
         /\ envCalls' = <<"removeEventListener">> \o
                IF mutationsObserver = "observer" THEN <<"disconnect">> ELSE <<>>
         /\ listenersEnabled' = FALSE

\* mutant: the observer is pushed without the isConnected test
ConnectAlwaysPush(observer) ==
    /\ UserCode
    /\ last' = <<"connect", observer, Len(observers)>>
    /\ observers' = Append(observers, observer)
    /\ IF ~listenersEnabled
       THEN AddListeners
       ELSE /\ envCalls' = <<>>
            /\ UNCHANGED <<resizeListener, mutationsObserver, listenersEnabled, fast>>
    /\ UNCHANGED <<isBrowser, mutationsSupported, isCycleContinuous, slow, pc, idx, hasChanges>>
    /\ UNCHANGED <<convVars, thrVars>>

\* mutant: the listeners are added on every connect
ConnectAlwaysAdd(observer) ==
    /\ UserCode
    /\ last' = <<"connect", observer, Len(observers)>>
    /\ observers' = IF ~IsConnected(observer) THEN Append(observers, observer) ELSE observers
    /\ resizeListener' = TRUE
    /\ mutationsObserver' = IF mutationsSupported THEN "observer" ELSE mutationsObserver
    /\ envCalls' = <<"addEventListener">> \o
           IF mutationsSupported THEN <<"new MutationObserver", "observe">> ELSE <<>>
    /\ listenersEnabled' = TRUE
    /\ fast' = IF isCycleContinuous THEN Refresh(fast, ControllerCall) ELSE fast
    /\ UNCHANGED <<isBrowser, mutationsSupported, isCycleContinuous, slow, pc, idx, hasChanges>>
    /\ UNCHANGED <<convVars, thrVars>>

\* connect(observer)
Connect(observer) ==
    /\ UserCode
    /\ last' = <<"connect", observer, Len(observers)>>
    /\ observers' = IF ~IsConnected(observer) THEN Append(observers, observer) ELSE observers
    /\ IF ~listenersEnabled
       THEN AddListeners
       ELSE /\ envCalls' = <<>>
            /\ UNCHANGED <<resizeListener, mutationsObserver, listenersEnabled, fast>>
    /\ UNCHANGED <<isBrowser, mutationsSupported, isCycleContinuous, slow, pc, idx, hasChanges>>
    /\ UNCHANGED <<convVars, thrVars>>

\* mutant: the emptiness test reads the length from before the splice
DisconnectStaleLength(observer) ==
    /\ UserCode
    /\ last' = <<"disconnect", observer, Len(observers)>>
    /\ observers' = IF IndexOf(observer) # 0 THEN Splice(observers, IndexOf(observer)) ELSE observers
    /\ IF Len(observers) = 0 /\ listenersEnabled
       THEN RemoveListeners
       ELSE /\ envCalls' = <<>>
            /\ UNCHANGED <<resizeListener, mutationsObserver, listenersEnabled>>
    /\ UNCHANGED <<isBrowser, mutationsSupported, isCycleContinuous, fast, slow, pc, idx, hasChanges>>
    /\ UNCHANGED <<convVars, thrVars>>

\* mutant: the listeners are kept when the last observer goes
DisconnectKeepListeners(observer) ==
    /\ UserCode
    /\ last' = <<"disconnect", observer, Len(observers)>>
    /\ observers' = IF IndexOf(observer) # 0 THEN Splice(observers, IndexOf(observer)) ELSE observers
    /\ envCalls' = <<>>
    /\ UNCHANGED <<resizeListener, mutationsObserver, listenersEnabled>>
    /\ UNCHANGED <<isBrowser, mutationsSupported, isCycleContinuous, fast, slow, pc, idx, hasChanges>>
    /\ UNCHANGED <<convVars, thrVars>>

\* mutant: the listeners are removed on every disconnect
DisconnectAlwaysRemove(observer) ==
    /\ UserCode
    /\ last' = <<"disconnect", observer, Len(observers)>>
    /\ observers' = IF IndexOf(observer) # 0 THEN Splice(observers, IndexOf(observer)) ELSE observers
    /\ IF listenersEnabled
       THEN RemoveListeners
       ELSE /\ envCalls' = <<>>
            /\ UNCHANGED <<resizeListener, mutationsObserver, listenersEnabled>>
    /\ UNCHANGED <<isBrowser, mutationsSupported, isCycleContinuous, fast, slow, pc, idx, hasChanges>>
    /\ UNCHANGED <<convVars, thrVars>>

\* disconnect(observer)
Disconnect(observer) ==
    /\ UserCode
    /\ last' = <<"disconnect", observer, Len(observers)>>
    /\ observers' = IF IndexOf(observer) # 0 THEN Splice(observers, IndexOf(observer)) ELSE observers
    /\ IF Len(observers') = 0 /\ listenersEnabled
       THEN RemoveListeners
       ELSE /\ envCalls' = <<>>
            /\ UNCHANGED <<resizeListener, mutationsObserver, listenersEnabled>>
    /\ UNCHANGED <<isBrowser, mutationsSupported, isCycleContinuous, fast, slow, pc, idx, hasChanges>>
    /\ UNCHANGED <<convVars, thrVars>>

\* mutant: the value is applied whatever mutationsSupported is
SetContinuousUpdatesUnguarded(useContinuous) ==
    /\ UserCode
    /\ last' = <<"set", useContinuous>>
    /\ envCalls' = <<>>
    /\ isCycleContinuous' = useContinuous
    /\ fast' = IF listenersEnabled /\ useContinuous
               THEN Refresh(fast, ControllerCall) ELSE fast
    /\ UNCHANGED <<isBrowser, mutationsSupported, listenersEnabled, mutationsObserver,
                   observers, resizeListener, slow, pc, idx, hasChanges>>
    /\ UNCHANGED <<convVars, thrVars>>

\* set continuousUpdates(useContinuous)
SetContinuousUpdates(useContinuous) ==
    /\ UserCode
    /\ last' = <<"set", useContinuous>>
    /\ envCalls' = <<>>
    /\ IF ~mutationsSupported
       THEN UNCHANGED <<isCycleContinuous, fast>>
       ELSE /\ isCycleContinuous' = useContinuous
            /\ fast' = IF listenersEnabled /\ useContinuous
                       THEN Refresh(fast, ControllerCall) ELSE fast
    /\ UNCHANGED <<isBrowser, mutationsSupported, listenersEnabled, mutationsObserver,
                   observers, resizeListener, slow, pc, idx, hasChanges>>
    /\ UNCHANGED <<convVars, thrVars>>

\* the window fires "resize": the listener, when registered, is this.refresh
ResizeEvent ==
    /\ pc = "idle"
    /\ last' = <<"resize">>
    /\ envCalls' = <<>>
    /\ fast' = IF resizeListener THEN Refresh(fast, ResizeCall) ELSE fast
    /\ UNCHANGED <<isBrowser, mutationsSupported, isCycleContinuous, listenersEnabled,
                   mutationsObserver, observers, resizeListener, slow, pc, idx, hasChanges>>
    /\ UNCHANGED <<convVars, thrVars>>

\* the document mutates: the MutationObserver, while it exists, delivers the
\* records to this.refresh
MutationEvent ==
    /\ pc = "idle"
    /\ last' = <<"mutation">>
    /\ envCalls' = <<>>
    /\ fast' = IF mutationsObserver = "observer" THEN Refresh(fast, MutationCall) ELSE fast
    /\ UNCHANGED <<isBrowser, mutationsSupported, isCycleContinuous, listenersEnabled,
                   mutationsObserver, observers, resizeListener, slow, pc, idx, hasChanges>>
    /\ UNCHANGED <<convVars, thrVars>>

\* user code calls the public refresh() itself
RefreshCall ==
    /\ UserCode
    /\ last' = <<"refresh">>
    /\ envCalls' = <<>>
    /\ fast' = Refresh(fast, ControllerCall)
    /\ UNCHANGED <<isBrowser, mutationsSupported, isCycleContinuous, listenersEnabled,
                   mutationsObserver, observers, resizeListener, slow, pc, idx, hasChanges>>
    /\ UNCHANGED <<convVars, thrVars>>

\* TickMs milliseconds pass
Tick ==
    /\ last' = <<"tick">>
    /\ envCalls' = <<>>
    /\ fast' = [fast EXCEPT !.timers = Elapse(@)]
    /\ slow' = [slow EXCEPT !.timers = Elapse(@)]
    /\ UNCHANGED <<isBrowser, mutationsSupported, isCycleContinuous, listenersEnabled,
                   mutationsObserver, observers, resizeListener, pc, idx, hasChanges>>
    /\ UNCHANGED <<convVars, thrVars>>

\* the 30 ms timer of this.refresh fires: timeoutCallback with afterRAF
FastTimeout ==
    /\ pc = "idle"
    /\ last' = <<"fastTimeout">>
    /\ envCalls' = <<>>
    /\ TimerDue(fast)
    /\ fast' = TimeoutCallback(fast, TRUE)
    /\ UNCHANGED <<isBrowser, mutationsSupported, isCycleContinuous, listenersEnabled,
                   mutationsObserver, observers, resizeListener, slow, pc, idx, hasChanges>>
    /\ UNCHANGED <<convVars, thrVars>>

\* mutant: leadCall is cleared before the callback is invoked
InvokeRefreshClearsLead ==
    /\ pc = "idle"
    /\ last' = <<"frame">>
    /\ envCalls' = <<>>
    /\ fast.frames > 0
    /\ fast' = [fast EXCEPT !.frames = @ - 1, !.leadCall = Null]
    /\ pc' = "pass"
    /\ idx' = 0
    /\ hasChanges' = FALSE
    /\ UNCHANGED <<isBrowser, mutationsSupported, isCycleContinuous, listenersEnabled,
                   mutationsObserver, observers, resizeListener, slow>>
    /\ UNCHANGED thrVars

\* the animation frame fires: invokeCallback enters refresh and
\* _updateObservers starts iterating this._observers
InvokeRefresh ==
    /\ pc = "idle"
    /\ last' = <<"frame">>
    /\ envCalls' = <<>>
    /\ fast.frames > 0
    /\ fast' = [fast EXCEPT !.frames = @ - 1]
    /\ pc' = "pass"
    /\ idx' = 0
    /\ hasChanges' = FALSE
    /\ UNCHANGED <<isBrowser, mutationsSupported, isCycleContinuous, listenersEnabled,
                   mutationsObserver, observers, resizeListener, slow>>
    /\ UNCHANGED thrVars

FastFrame == InvokeRefresh /\ UNCHANGED convVars

\* one iteration of the for-of loop: gatherActive, hasActive (its result is
\* the session's), and with active observations broadcastActive is entered
GatherAndBroadcast(active) ==
    /\ pc = "pass"
    /\ last' = <<"update", active>>
    /\ envCalls' = <<>>
    /\ idx < Len(observers)
    /\ idx' = idx + 1
    /\ hasChanges' = (hasChanges \/ active)
    /\ pc' = IF active THEN "broadcast" ELSE "pass"
    /\ UNCHANGED <<isBrowser, mutationsSupported, isCycleContinuous, listenersEnabled,
                   mutationsObserver, observers, resizeListener, fast, slow>>
    /\ UNCHANGED thrVars

UpdateObserver(active) == GatherAndBroadcast(active) /\ UNCHANGED convVars

\* broadcastActive returns to the loop
BroadcastReturn ==
    /\ pc = "broadcast"
    /\ last' = <<"broadcastReturn">>
    /\ envCalls' = <<>>
    /\ pc' = "pass"
    /\ UNCHANGED <<isBrowser, mutationsSupported, isCycleContinuous, listenersEnabled,
                   mutationsObserver, observers, resizeListener, fast, slow, idx, hasChanges>>
    /\ UNCHANGED <<convVars, thrVars>>

\* mutant: refresh does not call itself after a changed pass
RefreshTailFastNever(f) == f

\* mutant: the continuous handler is called whatever _listenersEnabled is
RefreshTailSlowAnyway(s) ==
    IF ~hasChanges /\ isCycleContinuous
    THEN ContinuousUpdateHandler(s) ELSE s

\* mutant: the continuous cycle calls this.refresh directly
RefreshTailFastContinuous(f) ==
    IF hasChanges \/ (isCycleContinuous /\ listenersEnabled)
    THEN Refresh(f, ControllerCall) ELSE f

\* the wrappers after the body of refresh that follows _updateObservers
RefreshTailFast(f) == IF hasChanges THEN Refresh(f, ControllerCall) ELSE f

RefreshTailSlow(s) ==
    IF ~hasChanges /\ isCycleContinuous /\ listenersEnabled
    THEN ContinuousUpdateHandler(s) ELSE s

\* the loop is exhausted: refresh finishes and invokeCallback clears leadCall
\* and re-issues the edge call
RefreshReturn ==
    /\ pc = "pass"
    /\ last' = <<"refreshReturn", hasChanges>>
    /\ envCalls' = <<>>
    /\ idx >= Len(observers)
    /\ fast' = InvokeTail(RefreshTailFast(fast), FastDelay)
    /\ slow' = RefreshTailSlow(slow)
    /\ pc' = "idle"
    /\ UNCHANGED <<isBrowser, mutationsSupported, isCycleContinuous, listenersEnabled,
                   mutationsObserver, observers, resizeListener, idx, hasChanges>>
    /\ UNCHANGED <<convVars, thrVars>>

\* the 70 ms timer of this._continuousUpdateHandler fires: timeoutCallback
\* runs invokeCallback at once, whose callback is this.refresh
SlowTimeout ==
    /\ pc = "idle"
    /\ last' = <<"slowTimeout">>
    /\ envCalls' = <<>>
    /\ TimerDue(slow)
    /\ fast' = Refresh(fast, slow.leadCall)
    /\ slow' = InvokeTail(TimeoutCallback(slow, FALSE), SlowDelay)
    /\ UNCHANGED <<isBrowser, mutationsSupported, isCycleContinuous, listenersEnabled,
                   mutationsObserver, observers, resizeListener, pc, idx, hasChanges>>
    /\ UNCHANGED <<convVars, thrVars>>

\* new ResizeObserverController(continuousUpdates)
Constructor(continuousUpdates) ==
    /\ isCycleContinuous = (~mutationsSupported \/ continuousUpdates)
    /\ listenersEnabled = FALSE
    /\ mutationsObserver = "undefined"
    /\ observers = <<>>
    /\ fast = NewThrottle
    /\ slow = NewThrottle

\* ------------------------------------------- a stand-alone throttle ---
\* throttle(callback, delay, afterRAF) for a callback that may call the
\* proxy again while it runs; caller k passes k as the only argument

\* ms of history kept: enough for MaxCalls calls less than a delay apart
MaxElapsed == MaxCalls * MaxDelaySteps * TickMs

ThrottleDelays == {n * TickMs : n \in 0..MaxDelaySteps}

Min(a, b) == IF a < b THEN a ELSE b

\* proxy(k), from user code or from inside the callback
ThrottleCall ==
    /\ nCalls < MaxCalls
    /\ thr' = Proxy(thr, CallData("caller", <<nCalls + 1>>), thrDelay)
    /\ nCalls' = nCalls + 1
    /\ span' = IF nCalls = 0 THEN 0 ELSE elapsed
    /\ elapsed' = IF nCalls = 0 THEN 0 ELSE elapsed
    /\ gapOK' = (gapOK /\ (nCalls = 0 \/ sinceCall < thrDelay))
    /\ sinceCall' = 0
    /\ nSuperseded' = IF thr.leadCall # Null /\ thr.edgeCall # Null
                      THEN nSuperseded + 1 ELSE nSuperseded
    /\ UNCHANGED <<thrDelay, thrRAF, thrPc, nFires, lastFired, sinceFire>>
    /\ UNCHANGED <<ctrlVars, last, envCalls, convVars>>

\* TickMs milliseconds pass
ThrottleTick ==
    /\ thr' = [thr EXCEPT !.timers = Elapse(@)]
    /\ sinceFire' = Min(sinceFire + TickMs, thrDelay)
    /\ sinceCall' = Min(sinceCall + TickMs, thrDelay)
    /\ elapsed' = Min(elapsed + TickMs, MaxElapsed)
    /\ UNCHANGED <<thrDelay, thrRAF, thrPc, nCalls, nFires, lastFired, span, gapOK, nSuperseded>>
    /\ UNCHANGED <<ctrlVars, last, envCalls, convVars>>

\* invokeCallback up to and into callback.apply(...leadCall)
ThrottleInvoke(c) ==
    /\ thr' = c
    /\ thrPc' = "callback"
    /\ nFires' = nFires + 1
    /\ lastFired' = c.leadCall
    /\ sinceFire' = 0

\* the timer fires: timeoutCallback
ThrottleTimeout ==
    /\ thrPc = "idle"
    /\ TimerDue(thr)
    /\ IF thrRAF
       THEN /\ thr' = TimeoutCallback(thr, TRUE)
            /\ UNCHANGED <<thrPc, nFires, lastFired, sinceFire>>
       ELSE ThrottleInvoke(TimeoutCallback(thr, FALSE))
    /\ UNCHANGED <<thrDelay, thrRAF, nCalls, sinceCall, elapsed, span, gapOK, nSuperseded>>
    /\ UNCHANGED <<ctrlVars, last, envCalls, convVars>>

\* the animation frame fires: invokeCallback
ThrottleFrame ==
    /\ thrPc = "idle"
    /\ thr.frames > 0
    /\ ThrottleInvoke([thr EXCEPT !.frames = @ - 1])
    /\ UNCHANGED <<thrDelay, thrRAF, nCalls, sinceCall, elapsed, span, gapOK, nSuperseded>>
    /\ UNCHANGED <<ctrlVars, last, envCalls, convVars>>

\* the callback returns: the rest of invokeCallback
ThrottleReturn ==
    /\ thrPc = "callback"
    /\ thr' = InvokeTail(thr, thrDelay)
    /\ thrPc' = "idle"
    /\ UNCHANGED <<thrDelay, thrRAF, nCalls, nFires, lastFired, sinceFire, sinceCall,
                   elapsed, span, gapOK, nSuperseded>>
    /\ UNCHANGED <<ctrlVars, last, envCalls, convVars>>

\* --------------------------------------------------------------- specs ---
\* the controller as constructed, no listeners attached
CtrlInit ==
    /\ isBrowser \in BOOLEAN
    /\ mutationsSupported \in BOOLEAN
    /\ \E continuousUpdates \in BOOLEAN : Constructor(continuousUpdates)
    /\ resizeListener = FALSE
    /\ pc = "idle"
    /\ idx = 0
    /\ hasChanges = FALSE
    /\ last = <<"constructor">>
    /\ envCalls = <<>>

\* the stand-alone wrapper as returned by throttle(callback, delay, afterRAF)
ThrottleNew(delay, afterRAF) ==
    /\ thr = NewThrottle
    /\ thrDelay = delay
    /\ thrRAF = afterRAF
    /\ thrPc = "idle"
    /\ nCalls = 0
    /\ nFires = 0
    /\ lastFired = Null
    /\ sinceFire = delay
    /\ sinceCall = delay
    /\ elapsed = 0
    /\ span = 0
    /\ gapOK = TRUE
    /\ nSuperseded = 0

Init ==
    /\ CtrlInit
    /\ passes = 0
    /\ convK = 0
    /\ processed = <<>>
    /\ atStart = {}
    /\ ThrottleNew(0, FALSE)

Next ==
    \/ \E observer \in Sessions : Connect(observer)
    \/ \E observer \in Sessions : Disconnect(observer)
    \/ \E useContinuous \in BOOLEAN : SetContinuousUpdates(useContinuous)
    \/ ResizeEvent
    \/ MutationEvent
    \/ RefreshCall
    \/ Tick
    \/ FastTimeout
    \/ FastFrame
    \/ \E active \in BOOLEAN : UpdateObserver(active)
    \/ BroadcastReturn
    \/ RefreshReturn
    \/ SlowTimeout

Spec == Init /\ [][Next]_vars

\* a stand-alone throttle wrapper under arbitrary calls and timing
ThrottleInit ==
    /\ isBrowser = FALSE
    /\ mutationsSupported = FALSE
    /\ Constructor(FALSE)
    /\ resizeListener = FALSE
    /\ pc = "idle"
    /\ idx = 0
    /\ hasChanges = FALSE
    /\ last = <<"constructor">>
    /\ envCalls = <<>>
    /\ passes = 0
    /\ convK = 0
    /\ processed = <<>>
    /\ atStart = {}
    /\ \E delay \in ThrottleDelays, afterRAF \in BOOLEAN : ThrottleNew(delay, afterRAF)

ThrottleNext ==
    \/ ThrottleCall
    \/ ThrottleTick
    \/ ThrottleTimeout
    \/ ThrottleFrame
    \/ ThrottleReturn

SpecThrottle == ThrottleInit /\ [][ThrottleNext]_vars

\* the controller under a fair event loop: time passes, due timers and
\* requested frames fire, session operations return
Fairness ==
    /\ WF_vars(Tick)
    /\ WF_vars(FastTimeout)
    /\ WF_vars(FastFrame)
    /\ WF_vars(SlowTimeout)
    /\ WF_vars(\E active \in BOOLEAN : UpdateObserver(active))
    /\ WF_vars(BroadcastReturn)
    /\ WF_vars(RefreshReturn)

FairSpec == Spec /\ Fairness

\* convergence runs: sessions are connected with continuous updates off,
\* refresh() is called once, and from then on only time, timers, frames and
\* the passes themselves go on; the sessions report changes in the first
\* convK passes
ConvergeInit ==
    /\ isBrowser \in BOOLEAN
    /\ mutationsSupported = TRUE
    /\ Constructor(FALSE)
    /\ resizeListener = FALSE
    /\ pc = "idle"
    /\ idx = 0
    /\ hasChanges = FALSE
    /\ last = <<"constructor">>
    /\ envCalls = <<>>
    /\ passes = 0
    /\ convK \in 0..MaxK
    /\ processed = <<>>
    /\ atStart = {}
    /\ ThrottleNew(0, FALSE)

Triggered == last[1] \notin {"constructor", "connect"}

ConvergeConnect(observer) == ~Triggered /\ Connect(observer)

ConvergeTrigger ==
    /\ ~Triggered
    /\ convK > 0 => observers # <<>>
    /\ RefreshCall

ConvergeTick == Triggered /\ Tick

ConvergeFrame == InvokeRefresh /\ passes' = passes + 1 /\ UNCHANGED <<convK, processed, atStart>>

ConvergeUpdate(active) ==
    /\ IF passes > convK
       THEN ~active
       ELSE (idx = Len(observers) - 1 /\ ~hasChanges) => active
    /\ UpdateObserver(active)

ConvergeNext ==
    \/ \E observer \in Sessions : ConvergeConnect(observer)
    \/ ConvergeTrigger
    \/ ConvergeTick
    \/ FastTimeout
    \/ ConvergeFrame
    \/ \E active \in BOOLEAN : ConvergeUpdate(active)
    \/ BroadcastReturn
    \/ RefreshReturn

SpecConverge == ConvergeInit /\ [][ConvergeNext]_vars

\* drain runs: the controller as in Spec, with the passes counted that begin
\* with no session connected; once such a pass has begun no session is
\* connected again, and user code calls refresh() only with a session
\* connected
DrainConnect(observer) == passes = 0 /\ Connect(observer)

DrainRefreshCall == observers # <<>> /\ RefreshCall

DrainFrame ==
    /\ InvokeRefresh
    /\ passes' = IF observers = <<>> THEN passes + 1 ELSE passes
    /\ UNCHANGED <<convK, processed, atStart>>

DrainNext ==
    \/ \E observer \in Sessions : DrainConnect(observer)
    \/ \E observer \in Sessions : Disconnect(observer)
    \/ \E useContinuous \in BOOLEAN : SetContinuousUpdates(useContinuous)
    \/ ResizeEvent
    \/ MutationEvent
    \/ DrainRefreshCall
    \/ Tick
    \/ FastTimeout
    \/ DrainFrame
    \/ \E active \in BOOLEAN : UpdateObserver(active)
    \/ BroadcastReturn
    \/ RefreshReturn
    \/ SlowTimeout

SpecDrain == Init /\ [][DrainNext]_vars

\* pass runs: the controller as in Spec, with a record of the sessions that
\* were connected when the current pass began and of those it has processed;
\* user code inside broadcastActive does not connect again a session it
\* disconnected during the same pass, so the sessions connected throughout
\* a pass are those of atStart that are still connected
Members(seq) == {seq[i] : i \in 1..Len(seq)}

PassConnect(observer) ==
    /\ pc = "broadcast" => (observer \notin atStart \/ IsConnected(observer))
    /\ Connect(observer)

PassFrame ==
    /\ InvokeRefresh
    /\ processed' = <<>>
    /\ atStart' = Members(observers)
    /\ UNCHANGED <<passes, convK>>

\* the for-of iterator yields this._observers[idx] (idx counted from 0)
PassUpdate(active) ==
    /\ GatherAndBroadcast(active)
    /\ processed' = Append(processed, observers[idx + 1])
    /\ UNCHANGED <<passes, convK, atStart>>

PassNext ==
    \/ \E observer \in Sessions : PassConnect(observer)
    \/ \E observer \in Sessions : Disconnect(observer)
    \/ \E useContinuous \in BOOLEAN : SetContinuousUpdates(useContinuous)
    \/ ResizeEvent
    \/ MutationEvent
    \/ RefreshCall
    \/ Tick
    \/ FastTimeout
    \/ PassFrame
    \/ \E active \in BOOLEAN : PassUpdate(active)
    \/ BroadcastReturn
    \/ RefreshReturn
    \/ SlowTimeout

SpecPass == Init /\ [][PassNext]_vars

\* throwing sessions: the controller as in Spec, with sessions whose
\* gatherActive, hasActive or broadcastActive may throw.  Nothing catches
\* the exception: it leaves _updateObservers, refresh and invokeCallback at
\* callback.apply(...leadCall), before leadCall = null, and ends the task

\* mutant: invokeCallback finishes in a finally block
ThrowFinally ==
    /\ pc \in {"pass", "broadcast"}
    /\ pc = "pass" => idx < Len(observers)
    /\ last' = <<"throw">>
    /\ envCalls' = <<>>
    /\ pc' = "idle"
    /\ fast' = InvokeTail(fast, FastDelay)
    /\ UNCHANGED <<isBrowser, mutationsSupported, isCycleContinuous, listenersEnabled,
                   mutationsObserver, observers, resizeListener, slow, idx, hasChanges>>
    /\ UNCHANGED <<convVars, thrVars>>

\* gatherActive or hasActive of the next session throws, or the
\* broadcastActive that is running does
Throw ==
    /\ pc \in {"pass", "broadcast"}
    /\ pc = "pass" => idx < Len(observers)
    /\ last' = <<"throw">>
    /\ envCalls' = <<>>
    /\ pc' = "idle"
    /\ UNCHANGED <<isBrowser, mutationsSupported, isCycleContinuous, listenersEnabled,
                   mutationsObserver, observers, resizeListener, fast, slow, idx, hasChanges>>
    /\ UNCHANGED <<convVars, thrVars>>

ThrowNext ==
    \/ Next
    \/ Throw

SpecThrow == Init /\ [][ThrowNext]_vars

\* ------------------------------------------------- controller claims ---

NoDuplicates ==
    \A i, j \in 1..Len(observers) : i # j => observers[i] # observers[j]

\* C1: the session collection never holds a session twice; connect of a
\* connected session leaves the collection unchanged; disconnect of a
\* session that is not connected leaves the collection and listenersEnabled
\* unchanged
C1_UniqueSessions ==
    /\ []NoDuplicates
    /\ [][\A s \in Sessions :
            /\ (Connect(s) /\ IsConnected(s)) => observers' = observers
            /\ (Disconnect(s) /\ ~IsConnected(s)) =>
                   (observers' = observers /\ listenersEnabled' = listenersEnabled)]_vars

\* C1 witness: connect was called for a session that was connected already,
\* with every session connected
C1_Witness ==
    /\ last[1] = "connect" /\ last[3] = Len(observers)
    /\ Len(observers) = NumSessions

\* C2 as stated: listenersEnabled holds exactly when a session is connected
C2_Original == listenersEnabled <=> (observers # <<>>)

\* C2 amended: in a browser-like environment listenersEnabled holds exactly
\* when a session is connected (outside one it stays false)
C2_ListenersFollowSessions ==
    /\ isBrowser => (listenersEnabled <=> (observers # <<>>))
    /\ ~isBrowser => ~listenersEnabled

\* C2 witness: in a browser the last session has just been disconnected
C2_Witness ==
    /\ isBrowser /\ last[1] = "disconnect" /\ last[3] = 1
    /\ observers = <<>> /\ ~listenersEnabled

\* C3: listeners and watcher are attached only by a connect that takes the
\* session count from 0 to 1 and detached only by a disconnect that takes it
\* from 1 to 0; no other step makes an environment call; the watcher exists
\* exactly when listenersEnabled holds and mutation detection is supported
C3_ListenerLockstep ==
    /\ []((mutationsObserver = "observer") <=> (listenersEnabled /\ mutationsSupported))
    /\ [](resizeListener <=> listenersEnabled)
    /\ [][/\ (envCalls' # <<>> /\ envCalls'[1] = "addEventListener") =>
                /\ \E s \in Sessions : Connect(s)
                /\ Len(observers) = 0 /\ Len(observers') = 1
                /\ resizeListener' /\ ~resizeListener
                /\ mutationsSupported => (mutationsObserver' = "observer" /\ Len(envCalls') = 3)
          /\ (envCalls' # <<>> /\ envCalls'[1] # "addEventListener") =>
                /\ \E s \in Sessions : Disconnect(s)
                /\ Len(observers) = 1 /\ Len(observers') = 0
                /\ envCalls'[1] = "removeEventListener"
                /\ ~resizeListener' /\ resizeListener
                /\ mutationsObserver' # "observer"
          /\ (resizeListener' # resizeListener \/ mutationsObserver' # mutationsObserver)
                => envCalls' # <<>>]_vars

\* C3 witness: a second session was connected with the listeners attached,
\* and that connect made no environment call
C3_Witness ==
    /\ isBrowser /\ mutationsSupported
    /\ last[1] = "connect" /\ last[3] = 1 /\ Len(observers) = 2
    /\ envCalls = <<>> /\ resizeListener /\ mutationsObserver = "observer"

\* C4: disconnecting the only connected session makes isConnected false for
\* it, and while no session is connected a resize or mutation notification
\* changes nothing in either wrapper and starts no refresh
C4_NoReactionAfterDisconnect ==
    [][/\ \A s \in Sessions :
            (Disconnect(s) /\ observers = <<s>>) => ~IsConnected(s)'
       /\ ((ResizeEvent \/ MutationEvent) /\ observers = <<>>) =>
            (fast' = fast /\ slow' = slow /\ pc' = pc)]_vars

\* C4 witness: a resize notification arrives in a browser after the only
\* session was disconnected while a refresh was still pending
C4_Witness ==
    /\ isBrowser /\ last[1] = "resize" /\ observers = <<>>
    /\ mutationsObserver = "null" /\ fast.leadCall # Null

\* exactly one refresh is scheduled in the fast wrapper, nothing in the slow
OneScheduled ==
    /\ fast.leadCall # Null /\ fast.edgeCall = Null
    /\ Len(fast.timers) + fast.frames = 1
    /\ Idle(slow)

\* C8: with continuous updates off, after one refresh() call from idle
\* wrappers and K passes with changes, exactly K+1 passes run: every changed
\* pass schedules exactly one more, and after pass K+1 nothing is scheduled
C8_Convergence ==
    /\ passes <= convK + 1
    /\ (Triggered /\ pc = "idle") =>
          IF passes <= convK THEN OneScheduled ELSE (Idle(fast) /\ Idle(slow))
    /\ (pc # "idle") =>
          (fast.leadCall # Null /\ fast.timers = <<>> /\ fast.frames = 0 /\ Idle(slow))

\* C8 witness: two sessions, changes in the first MaxK passes, and pass
\* MaxK + 1 has ended with nothing scheduled
C8_Witness ==
    /\ convK = MaxK /\ passes = MaxK + 1 /\ Len(observers) = 2
    /\ last[1] = "refreshReturn" /\ Idle(fast) /\ Idle(slow)

\* steps of a settled system: time, timers, frames, and passes in which no
\* session reports a change
QuietStep ==
    \/ Tick
    \/ FastTimeout
    \/ FastFrame
    \/ UpdateObserver(FALSE)
    \/ BroadcastReturn
    \/ RefreshReturn
    \/ SlowTimeout

Quiescent == pc = "idle" /\ Idle(fast) /\ Idle(slow)

\* C9: if from some point on there are no events, no controller calls and
\* no reported changes, and continuous updates are off or no session is
\* connected, then eventually neither wrapper holds a call, no timer or
\* frame is outstanding, and no pass runs again
C9_PollingTerminates ==
    (<>[][QuietStep]_vars /\ <>[](~isCycleContinuous \/ observers = <<>>))
        => <>[]Quiescent

\* C9 witness: continuous updates on, the last session disconnected while
\* calls were pending in both wrappers
C9_Witness ==
    /\ isCycleContinuous /\ observers = <<>> /\ last[1] = "disconnect"
    /\ fast.leadCall # Null /\ fast.edgeCall # Null /\ slow.leadCall # Null

\* what a returning pass leaves scheduled, by whether it detected a change
PassSchedules(connected) ==
    /\ (RefreshReturn /\ ~hasChanges /\ isCycleContinuous /\ connected) =>
          /\ slow'.leadCall # Null
          /\ slow.leadCall = Null => slow'.timers = <<SlowDelay>>
          /\ fast.edgeCall = Null => Idle(fast')
    /\ (RefreshReturn /\ hasChanges) =>
          /\ slow' = slow
          /\ fast'.leadCall = ControllerCall /\ fast'.edgeCall = Null
          /\ fast'.timers = <<FastDelay>> /\ fast'.frames = 0

\* C10 as stated: with continuous updates on and a session connected,
\* passes recur for ever; a pass without changes schedules its successor
\* through the slow wrapper, a pass with changes through the fast one only
C10_Original ==
    /\ <>[](isCycleContinuous /\ observers # <<>>) => []<>(pc = "pass")
    /\ [][PassSchedules(observers # <<>>)]_vars

\* C10 amended: the same in a browser-like environment
C10_ContinuousPolling ==
    /\ <>[](isBrowser /\ isCycleContinuous /\ observers # <<>>) => []<>(pc = "pass")
    /\ [][PassSchedules(isBrowser /\ observers # <<>>)]_vars

\* C10 witness: a pass without changes has just handed its successor to the
\* slow wrapper, with continuous updates on and nothing left in the fast one
C10_Witness ==
    /\ isBrowser /\ isCycleContinuous /\ observers # <<>>
    /\ last = <<"refreshReturn", FALSE>>
    /\ slow.leadCall # Null /\ slow.timers = <<SlowDelay>> /\ Idle(fast)

\* --------------------------------------------------- throttle claims ---

\* C5: any two successive invocations of the wrapped callback are at least
\* the delay apart, whatever the calls and their timing, with calls made
\* from inside the callback and with the frame-deferred variant
C5_MinSpacing ==
    [][(nFires' = nFires + 1 /\ nFires > 0) => sinceFire >= thrDelay]_vars

\* C5 witness: the second invocation of a frame-deferred wrapper with a
\* delay of two ticks, reached through a call made while the callback ran
C5_Witness ==
    /\ thrRAF /\ thrDelay = 2 * TickMs
    /\ nFires = 2 /\ thrPc = "callback" /\ sinceFire = 0
    /\ lastFired = CallData("caller", <<2>>)

\* C6: once the wrapper is quiescent the latest invocation was made with
\* this and the arguments of the last call issued, and every call was either
\* invoked or overwritten while it waited in edgeCall
C6_LastCallWins ==
    (Idle(thr) /\ nCalls > 0) =>
        /\ lastFired = CallData("caller", <<nCalls>>)
        /\ nCalls = nFires + nSuperseded

\* C6 witness: a quiescent wrapper after calls of which one was superseded
C6_Witness ==
    /\ Idle(thr) /\ thrPc = "idle"
    /\ nCalls = MaxCalls /\ nSuperseded > 0 /\ nFires > 1

Ceil(a, b) == (a + b - 1) \div b

\* C7 as stated: calls less than D apart fire the callback at most
\* ceil(span / D) + 1 times
C7_Original ==
    (gapOK /\ thrDelay > 0) => nFires <= Ceil(span, thrDelay) + 1

\* C7 amended: calls less than D apart fire the callback at most
\* floor(span / D) + 2 times
C7_FiringBound ==
    (gapOK /\ thrDelay > 0) => nFires <= (span \div thrDelay) + 2

\* C7 witness: the bound is met after a run of calls less than D apart
C7_Witness ==
    /\ gapOK /\ thrDelay > 0 /\ nCalls = MaxCalls /\ span > thrDelay
    /\ nFires = (span \div thrDelay) + 2

\* ---------------------------------------- controller claims, continued ---

\* C11: when mutation detection is unsupported, continuous updates are on
\* in every reachable state, whatever the constructor argument was, and the
\* setter, called with true or false, changes nothing in the controller or
\* its wrappers
C11_ForcedContinuous ==
    /\ [](~mutationsSupported => isCycleContinuous)
    /\ [][\A useContinuous \in BOOLEAN :
            (~mutationsSupported /\ SetContinuousUpdates(useContinuous))
                => UNCHANGED ctrlVars]_vars

\* C11 witness: without mutation detection the setter was called with false
\* while the listeners were attached, and continuous updates are still on
C11_Witness ==
    /\ ~mutationsSupported /\ last = <<"set", FALSE>>
    /\ isCycleContinuous /\ listenersEnabled /\ fast.leadCall # Null

\* a step of one of the controller's public operations other than refresh
ControllerOp ==
    \/ \E s \in Sessions : Connect(s)
    \/ \E s \in Sessions : Disconnect(s)
    \/ \E useContinuous \in BOOLEAN : SetContinuousUpdates(useContinuous)

\* the step called this.refresh() once and did nothing else to the wrappers
RequestsRefresh == fast' = Refresh(fast, ControllerCall) /\ slow' = slow /\ pc' = pc

\* the step left the wrappers alone
RequestsNothing == fast' = fast /\ slow' = slow /\ pc' = pc

\* a connect that attaches the listeners while continuous updates are on
ConnectAttachesContinuous ==
    /\ \E s \in Sessions : Connect(s)
    /\ ~listenersEnabled /\ listenersEnabled' /\ isCycleContinuous

\* C12 as stated: connect, disconnect and the setter request a refresh in
\* exactly two situations: a connect that attaches the listeners while
\* continuous updates are on, and a set to true while listeners are attached
C12_Original ==
    [][ControllerOp =>
          IF \/ ConnectAttachesContinuous
             \/ SetContinuousUpdates(TRUE) /\ listenersEnabled
          THEN RequestsRefresh ELSE RequestsNothing]_vars

\* C12 amended: the second situation is a set to true while listeners are
\* attached and mutation detection is supported
C12_SelfInitiatedRefresh ==
    [][ControllerOp =>
          IF \/ ConnectAttachesContinuous
             \/ SetContinuousUpdates(TRUE) /\ listenersEnabled /\ mutationsSupported
          THEN RequestsRefresh ELSE RequestsNothing]_vars

\* C12 witness: continuous updates were switched on with the listeners
\* attached and no refresh pending, and the setter left one scheduled
C12_Witness ==
    /\ last = <<"set", TRUE>> /\ listenersEnabled /\ mutationsSupported
    /\ fast.leadCall = ControllerCall /\ fast.edgeCall = Null
    /\ fast.timers = <<FastDelay>> /\ fast.frames = 0 /\ Idle(slow)

\* C13 as stated: after a disconnect has emptied the collection, and with no
\* session connected again, at most one further pass runs
C13_Original == passes <= 1

\* calls a wrapper holds that have not begun to run
Waiting(c, running) ==
    (IF c.leadCall # Null /\ ~running THEN 1 ELSE 0) + (IF c.edgeCall # Null THEN 1 ELSE 0)

\* C13 amended: at most four further passes run, one for each call that
\* waits in the fast and the slow wrapper
C13_DrainBound ==
    passes + Waiting(fast, pc # "idle") + Waiting(slow, FALSE) <= 4

\* C13 witness: the fourth pass over an empty collection begins
C13_Witness ==
    /\ observers = <<>> /\ passes = 4 /\ last = <<"frame">> /\ pc = "pass"

\* how often the current pass has processed session s
TimesProcessed(s) == Cardinality({i \in 1..Len(processed) : processed[i] = s})

\* C14: when a pass has ended, every session that was connected throughout
\* it was processed exactly once, and these sessions were processed in
\* connection order, also when broadcastActive connected or disconnected
\* sessions during the pass
C14_Original ==
    last[1] = "refreshReturn" =>
        LET stayed == atStart \cap Members(observers)
            Pos(s) == CHOOSE i \in 1..Len(processed) : processed[i] = s
        IN  /\ \A s \in stayed : TimesProcessed(s) = 1
            /\ \A i, j \in 1..Len(observers) :
                  (i < j /\ observers[i] \in stayed /\ observers[j] \in stayed)
                      => Pos(observers[i]) < Pos(observers[j])

\* a step in which this.refresh, the fast wrapper's proxy, may be called from
\* outside a pass's own code: by an operation, an event or the slow wrapper
RefreshCaller ==
    \/ ControllerOp
    \/ RefreshCall
    \/ ResizeEvent
    \/ MutationEvent
    \/ SlowTimeout

\* C15: passes never nest or overlap.  While a pass runs the fast wrapper
\* holds its call with no timer and no frame outstanding, so none can begin;
\* a call arriving while a pass is pending or running changes edgeCall only;
\* the refresh() a changed pass makes is turned into the new leadCall with a
\* fresh timer of the fast delay when the pass returns; and a pass begins
\* only in a frame task that a due timer requested
C15_NoNesting ==
    /\ [](pc # "idle" => (fast.leadCall # Null /\ fast.timers = <<>> /\ fast.frames = 0))
    /\ [][/\ (RefreshCaller /\ fast.leadCall # Null) =>
                /\ fast'.leadCall = fast.leadCall
                /\ fast'.timers = fast.timers /\ fast'.frames = fast.frames
                /\ pc' = pc
          /\ (RefreshCall /\ fast.leadCall # Null) => fast'.edgeCall = ControllerCall
          /\ (pc # "idle" /\ pc' = "idle") =>
                /\ fast'.frames = 0
                /\ IF hasChanges \/ fast.edgeCall # Null
                   THEN fast'.leadCall # Null /\ fast'.timers = <<FastDelay>>
                   ELSE fast'.leadCall = Null /\ fast'.timers = <<>>
                /\ hasChanges => fast'.leadCall = ControllerCall
          /\ (pc = "idle" /\ pc' # "idle") =>
                (fast.frames = 1 /\ fast'.frames = 0 /\ fast.timers = <<>>)
          /\ fast'.frames > fast.frames => (pc = "idle" /\ TimerDue(fast))]_vars

\* C15 witness: user code called refresh() from inside broadcastActive and
\* the call waits in edgeCall while the pass goes on
C15_Witness ==
    /\ pc = "broadcast" /\ last = <<"refresh">>
    /\ fast.leadCall = ResizeCall /\ fast.edgeCall = ControllerCall
    /\ fast.timers = <<>> /\ fast.frames = 0

\* C16: only the setter changes continuous updates, and with mutation
\* detection it leaves them at the value set; the setter changes neither the
\* session collection nor listenersEnabled; listenersEnabled goes from false
\* to true only in a connect and from true to false only in a disconnect
\* that empties the collection
C16_FrameConditions ==
    [][/\ isCycleContinuous' # isCycleContinuous =>
              \E useContinuous \in BOOLEAN : SetContinuousUpdates(useContinuous)
       /\ \A useContinuous \in BOOLEAN : SetContinuousUpdates(useContinuous) =>
              /\ observers' = observers /\ listenersEnabled' = listenersEnabled
              /\ mutationsSupported => isCycleContinuous' = useContinuous
       /\ (~listenersEnabled /\ listenersEnabled') => \E s \in Sessions : Connect(s)
       /\ (listenersEnabled /\ ~listenersEnabled') =>
              /\ \E s \in Sessions : Disconnect(s)
              /\ observers # <<>> /\ observers' = <<>>]_vars

\* C16 witness: with mutation detection and two sessions connected,
\* continuous updates were switched off from inside a pass
C16_Witness ==
    /\ mutationsSupported /\ last = <<"set", FALSE>> /\ ~isCycleContinuous
    /\ listenersEnabled /\ Len(observers) = 2 /\ pc = "broadcast"

\* C17: outside a browser-like environment no listener is attached or
\* detached and no mutation watcher is created, listenersEnabled stays
\* false, the continuous handler is never called, connect, disconnect and
\* the setter leave both wrappers alone, and connect and disconnect still
\* maintain the session collection
C17_NonBrowserNoOps ==
    /\ [](~isBrowser =>
            /\ ~listenersEnabled /\ ~resizeListener
            /\ mutationsObserver = "undefined" /\ envCalls = <<>>
            /\ Idle(slow))
    /\ [][~isBrowser =>
            /\ ControllerOp => RequestsNothing
            /\ \A s \in Sessions :
                  /\ Connect(s) =>
                        /\ IsConnected(s)'
                        /\ observers' = IF IsConnected(s) THEN observers
                                                          ELSE Append(observers, s)
                  /\ Disconnect(s) =>
                        /\ ~IsConnected(s)'
                        /\ \A o \in Sessions \ {s} : IsConnected(o)' <=> IsConnected(o)]_vars

\* C17 witness: outside a browser, with continuous updates on, sessions were
\* connected and one disconnected again, and nothing is scheduled
C17_Witness ==
    /\ ~isBrowser /\ isCycleContinuous /\ mutationsSupported
    /\ last = <<"disconnect", 1, 2>> /\ observers = <<2>>
    /\ Idle(fast) /\ Idle(slow)

\* timers set and not yet fired, and frames requested and not yet run
Outstanding(c) == Len(c.timers) + c.frames

\* C19 as stated: each wrapper has at most one timer or frame callback
\* outstanding at any time, and has one exactly when its leadCall is set
C19_Original ==
    \A c \in {fast, slow} :
        /\ Outstanding(c) <= 1
        /\ Outstanding(c) = 1 <=> c.leadCall # Null

\* C19 amended: each wrapper has at most one timer or frame callback
\* outstanding at any time; while its callback is not running it has one
\* exactly when its leadCall is set, and while its callback runs leadCall
\* is set and none is outstanding
C19_OneOutstanding ==
    /\ \A c \in {fast, slow} :
          /\ Outstanding(c) <= 1
          /\ Outstanding(c) = 1 => c.leadCall # Null
    /\ slow.leadCall # Null => Outstanding(slow) = 1
    /\ pc = "idle" => (fast.leadCall # Null => Outstanding(fast) = 1)
    /\ pc # "idle" => (fast.leadCall # Null /\ Outstanding(fast) = 0)

\* C19 witness: both wrappers hold two calls each, with one timer each
C19_Witness ==
    /\ pc = "idle" /\ fast.leadCall # Null /\ fast.edgeCall # Null
    /\ slow.leadCall # Null /\ slow.edgeCall # Null
    /\ Len(fast.timers) = 1 /\ Len(slow.timers) = 1 /\ fast.frames = 0

\* no pass runs, and the fast wrapper holds a lead call with neither a
\* timer nor a frame to invoke it
Stalled ==
    /\ pc = "idle"
    /\ fast.leadCall # Null /\ fast.timers = <<>> /\ fast.frames = 0

\* C20: a session operation that throws ends the pass with the remaining
\* sessions unprocessed and leaves the fast wrapper stalled; from then on a
\* refresh() call, whoever makes it, only overwrites edgeCall, and no pass
\* runs again
C20_ThrowStalls ==
    [][/\ Throw => (Stalled' /\ fast' = fast /\ idx' = idx /\ observers' = observers)
       /\ Stalled =>
             /\ Stalled' /\ fast'.leadCall = fast.leadCall
             /\ RefreshCall => fast'.edgeCall = ControllerCall
             /\ (ResizeEvent /\ resizeListener) => fast'.edgeCall = ResizeCall
             /\ SlowTimeout => fast'.edgeCall = slow.leadCall
             /\ ConnectAttachesContinuous => fast'.edgeCall = ControllerCall]_vars

\* C20 witness: the first of two sessions threw, the second was never
\* processed, and a later resize notification went to edgeCall
C20_Witness ==
    /\ Stalled /\ last = <<"resize">> /\ fast.edgeCall = ResizeCall
    /\ Len(observers) = 2 /\ idx = 0 /\ slow.leadCall # Null

\* ------------------------------------- throttle claims, continued ---

\* C18: edgeCall is set only while leadCall is set; a proxy call made while
\* leadCall is pending overwrites edgeCall and leaves leadCall, the timer and
\* its deadline alone; when the invoked lead call returns with edgeCall set,
\* the edge call becomes the new leadCall with a fresh timer of the full
\* delay and edgeCall is cleared
C18_TwoSlot ==
    /\ [](thr.edgeCall # Null => thr.leadCall # Null)
    /\ [][/\ (ThrottleCall /\ thr.leadCall # Null) =>
                /\ thr'.edgeCall = CallData("caller", <<nCalls + 1>>)
                /\ thr'.leadCall = thr.leadCall
                /\ thr'.timers = thr.timers /\ thr'.frames = thr.frames
          /\ (ThrottleReturn /\ thr.edgeCall # Null) =>
                /\ thr'.leadCall = thr.edgeCall /\ thr'.edgeCall = Null
                /\ thr'.timers = <<thrDelay>> /\ thr'.frames = 0
          /\ (ThrottleReturn /\ thr.edgeCall = Null) => Idle(thr')]_vars

\* C18 witness: three calls, the second overwritten by the third while the
\* first waited; the first has been invoked and has returned, and the third
\* is the new lead call with the full delay ahead
C18_Witness ==
    /\ thrPc = "idle" /\ thrDelay = 2 * TickMs /\ nCalls = 3
    /\ nFires = 1 /\ nSuperseded = 1
    /\ thr.leadCall = CallData("caller", <<3>>) /\ thr.edgeCall = Null
    /\ thr.timers = <<thrDelay>> /\ thr.frames = 0

=============================================================================
